---------------------------- MODULE Spec2Model ----------------------------
(***************************************************************************)
(* A model of vispy/scene/cameras.py: the camera factory, the Camera base  *)
(* class (binding to a ViewBox, publishing the transform), PanZoomCamera   *)
(* (pan / zoom of a visible rect) and the PerspectiveCamera family         *)
(* (TurntableCamera orbit, projection, composition).                       *)
(*                                                                         *)
(* Numbers are exact rationals <<n, d>> (d > 0, lowest terms), because the *)
(* file imports true division and the pan/zoom arithmetic divides.         *)
(* Transforms are values of one record shape; an AffineTransform is the    *)
(* list of the operations applied to it since its last reset().            *)
(***************************************************************************)
EXTENDS Integers, Sequences, FiniteSets, TLC

(***************************************************************************)
(* Bounds of the model.                                                    *)
(***************************************************************************)
\* operations performed on the camera after its construction
MaxOps == 3

(***************************************************************************)
(* Exact rational arithmetic.                                              *)
(***************************************************************************)
Abs(x) == IF x < 0 THEN -x ELSE x

RECURSIVE GCD(_, _)
GCD(a, b) == IF b = 0 THEN a ELSE GCD(b, a % b)

\* the rational n/d in lowest terms with a positive denominator
Q(n, d) ==
    LET g == GCD(Abs(n), Abs(d))
        s == IF d < 0 THEN -1 ELSE 1
    IN  <<s * (n \div g), s * (d \div g)>>

R(n) == <<n, 1>>

RNeg(a) == <<-a[1], a[2]>>

RAdd(a, b) ==
    LET g == GCD(a[2], b[2])
    IN  Q(a[1] * (b[2] \div g) + b[1] * (a[2] \div g), (a[2] \div g) * b[2])

RSub(a, b) == RAdd(a, RNeg(b))

RMul(a, b) ==
    LET g1 == GCD(Abs(a[1]), b[2])
        g2 == GCD(Abs(b[1]), a[2])
    IN  IF a[1] = 0 \/ b[1] = 0 THEN <<0, 1>>
        ELSE <<(a[1] \div g1) * (b[1] \div g2), (a[2] \div g2) * (b[2] \div g1)>>

RInv(a) == IF a[1] < 0 THEN <<-a[2], -a[1]>> ELSE <<a[2], a[1]>>

RDiv(a, b) == RMul(a, RInv(b))

\* a ** k for an integer exponent k
RECURSIVE RPow(_, _)
RPow(a, k) ==
    IF k = 0 THEN <<1, 1>>
    ELSE IF k < 0 THEN RInv(RPow(a, -k))
    ELSE RMul(a, RPow(a, k - 1))

\* pairs of rationals (numpy arrays of length 2)
V2(x, y) == <<R(x), R(y)>>
VAdd(p, q) == <<RAdd(p[1], q[1]), RAdd(p[2], q[2])>>
VSub(p, q) == <<RSub(p[1], q[1]), RSub(p[2], q[2])>>
VMul(p, q) == <<RMul(p[1], q[1]), RMul(p[2], q[2])>>
VDiv(p, q) == <<RDiv(p[1], q[1]), RDiv(p[2], q[2])>>
VNeg(p) == <<RNeg(p[1]), RNeg(p[2])>>

(***************************************************************************)
(* Rect (util.geometry): position and size.                                *)
(***************************************************************************)
Rect(pos, size) == [pos |-> pos, size |-> size]

\* Rect + vector: the rect translated
RectAdd(r, v) == Rect(VAdd(r.pos, v), r.size)

\* Rect.flipped(y=True, x=False)
RectFlippedY(r) ==
    Rect(<<r.pos[1], RAdd(r.pos[2], r.size[2])>>, <<r.size[1], RNeg(r.size[2])>>)

\* the four corners, in the order (left,bottom) (right,bottom) (left,top) (right,top)
Corners(r) ==
    << r.pos,
       <<RAdd(r.pos[1], r.size[1]), r.pos[2]>>,
       <<r.pos[1], RAdd(r.pos[2], r.size[2])>>,
       VAdd(r.pos, r.size) >>

(***************************************************************************)
(* Transforms.  Every transform is a record                                *)
(*   [t, scale, translate, ops, parts]                                     *)
(* t: the class; scale/translate: the STTransform parameters; ops: the     *)
(* operations applied to an AffineTransform / PerspectiveTransform since   *)
(* its reset; parts: the operands of a product.                            *)
(***************************************************************************)
One2 == V2(1, 1)
Zero2 == V2(0, 0)

Tr(t, sc, tl, ops, parts) ==
    [t |-> t, scale |-> sc, translate |-> tl, ops |-> ops, parts |-> parts]

NullTransform == Tr("NullTransform", One2, Zero2, <<>>, <<>>)

STTransform(sc, tl) == Tr("STTransform", sc, tl, <<>>, <<>>)

AffineTransform(ops) == Tr("AffineTransform", One2, Zero2, ops, <<>>)

PerspectiveTransform(ops) == Tr("PerspectiveTransform", One2, Zero2, ops, <<>>)

Op(name, args) == [op |-> name, args |-> args]

\* STTransform.map / imap of a point
STMap(tr, p) == VAdd(VMul(p, tr.scale), tr.translate)
STImap(tr, p) == VDiv(VSub(p, tr.translate), tr.scale)

\* STTransform.map of a Rect: both corners are mapped
STMapRect(tr, r) == Rect(STMap(tr, r.pos), VMul(r.size, tr.scale))

\* STTransform * STTransform: (a * b) maps p to a.map(b.map(p))
STMul(a, b) == STTransform(VMul(a.scale, b.scale), STMap(a, b.translate))

\* STTransform.set_mapping / from_mapping: the transform taking rect x0 to x1
STFromMapping(x0, x1) ==
    LET sc == VDiv(x1.size, x0.size)
    IN  STTransform(sc, VSub(x1.pos, VMul(sc, x0.pos)))

(***************************************************************************)
(* The camera object and the viewports (ViewBox).  A world is              *)
(*   [cam, vp, exc]: the camera's attributes, the viewports, and the       *)
(* exception raised by the call in progress ("none" while it runs).        *)
(* A viewport's scene_is_cam says that its scene.transform is the very     *)
(* object the camera holds as _transform, so that an in-place change of    *)
(* the camera's transform shows through it.                                *)
(* The camera's connected says that _update_transform is a callback of its *)
(* events.transform_change, blocked that the emitter holds it blocked.     *)
(***************************************************************************)
Viewports == {1, 2}
None == 0

Streams == {"mouse_press", "mouse_release", "mouse_move", "mouse_wheel"}

\* the viewports as the scene builds them: position in the canvas, pixel size
InitVp ==
    [v \in Viewports |->
        [pos |-> IF v = 1 THEN <<0, 0>> ELSE <<10, 20>>,
         size |-> <<400, 300>>,
         subs |-> {},
         scene_transform |-> NullTransform,
         scene_is_cam |-> FALSE]]

\* viewbox.rect
ViewboxRect(b) == Rect(V2(b.pos[1], b.pos[2]), V2(b.size[1], b.size[2]))

NoCamera ==
    [kind |-> "none", viewbox |-> None, transform |-> NullTransform,
     rect |-> Rect(Zero2, One2), mouse_enabled |-> TRUE,
     mode |-> "ortho", ortho_width |-> 10, fov |-> 60,
     projection |-> PerspectiveTransform(<<>>),
     elevation |-> 0, azimuth |-> 0, distance |-> 10, center |-> <<0, 0, 0>>,
     parent |-> None, connected |-> FALSE, blocked |-> FALSE]

\* runs counts the times the body of _update_transform has run in the call
World(c, b, e) == [cam |-> c, vp |-> b, exc |-> e, runs |-> 0]

Raise(w, e) == [w EXCEPT !.exc = e]

\* self._transform = tr: the camera holds another object from now on
AssignTransform(w, tr) ==
    [w EXCEPT !.cam.transform = tr,
              !.vp = [v \in Viewports |-> [w.vp[v] EXCEPT !.scene_is_cam = FALSE]]]

\* a change made in place to the object self._transform
MutateTransform(w, tr) ==
    [w EXCEPT !.cam.transform = tr,
              !.vp = [v \in Viewports |->
                        IF w.vp[v].scene_is_cam
                        THEN [w.vp[v] EXCEPT !.scene_transform = tr]
                        ELSE w.vp[v]]]

(***************************************************************************)
(* Camera                                                                  *)
(***************************************************************************)
Camera_init == [NoCamera EXCEPT !.kind = "Camera"]

\* update() that writes nothing to the viewbox
Camera_update_unpublished(w) == w

\* Camera.update: set the scene transform to the camera's transform
Camera_update(w) ==
    IF w.cam.viewbox # None
    THEN [w EXCEPT !.vp[w.cam.viewbox].scene_transform = w.cam.transform,
                   !.vp[w.cam.viewbox].scene_is_cam = TRUE]
    ELSE w

\* PanZoomCamera.update
PanZoomCamera_update(w) ==
    LET w1 == IF w.cam.viewbox = None THEN w
              ELSE IF w.cam.transform.t # "STTransform"
                   THEN Raise(w, "AttributeError")
                   ELSE MutateTransform(w,
                          STFromMapping(w.cam.rect,
                                        RectFlippedY(ViewboxRect(w.vp[w.cam.viewbox]))))
    IN  IF w1.exc # "none" THEN w1 ELSE Camera_update(w1)

\* self.update(), as the camera's class resolves it
update(w) ==
    IF w.cam.kind = "PanZoomCamera" THEN PanZoomCamera_update(w) ELSE Camera_update(w)

\* the transform setter
transform_set(w, tr) == update(AssignTransform(w, tr))

connect(w) ==
    [w EXCEPT !.vp[w.cam.viewbox].subs = @ \cup Streams]

disconnect(w) ==
    IF w.cam.viewbox = None THEN Raise(w, "AttributeError")
    ELSE [w EXCEPT !.vp[w.cam.viewbox].subs = @ \ Streams]

\* the viewbox setter of Camera; line 69 calls self.disconnec(), a name the
\* class does not define
Camera_viewbox_set(w, vb) ==
    IF w.cam.viewbox # None THEN Raise(w, "AttributeError")
    ELSE update(connect([w EXCEPT !.cam.viewbox = vb]))

(***************************************************************************)
(* PanZoomCamera                                                           *)
(***************************************************************************)
PanZoomCamera_init ==
    [NoCamera EXCEPT !.kind = "PanZoomCamera",
                     !.rect = Rect(V2(0, 0), V2(1, 1)),
                     !.transform = STTransform(One2, Zero2),
                     !.mouse_enabled = TRUE]

\* the rect setter
rect_set(w, r) == PanZoomCamera_update([w EXCEPT !.cam.rect = r])

\* event.map_to_canvas: viewbox coordinates to canvas coordinates
map_to_canvas(e, p) == <<p[1] + e.offset[1], p[2] + e.offset[2]>>

ZoomBase == <<103, 100>>

\* the pan with the two positions exchanged
PanZoomCamera_pan_reversed(w, e) ==
    LET p1s == STImap(w.cam.transform, V2(e.last_pos[1], e.last_pos[2]))
        p2s == STImap(w.cam.transform, V2(e.pos[1], e.pos[2]))
    IN  rect_set(w, RectAdd(w.cam.rect, VSub(p2s, p1s)))

\* the pan branch of PanZoomCamera.mouse_event: the rect moves by the scene
\* distance between the previous and the current pointer position
PanZoomCamera_pan(w, e) ==
    LET p1s == STImap(w.cam.transform, V2(e.last_pos[1], e.last_pos[2]))
        p2s == STImap(w.cam.transform, V2(e.pos[1], e.pos[2]))
    IN  rect_set(w, RectAdd(w.cam.rect, VSub(p1s, p2s)))

\* the zoom about the scene point under the current pointer position
PanZoomCamera_zoom_about_pointer(w, e) ==
    LET p1c == map_to_canvas(e, e.last_pos)
        p2c == map_to_canvas(e, e.pos)
        s   == <<RPow(ZoomBase, p1c[1] - p2c[1]),
                 RPow(ZoomBase, -(p1c[2] - p2c[2]))>>
        center == STImap(w.cam.transform, V2(e.pos[1], e.pos[2]))
        tr  == STMul(STMul(STTransform(One2, center), STTransform(s, Zero2)),
                     STTransform(One2, VNeg(center)))
    IN  rect_set(w, STMapRect(tr, w.cam.rect))

\* the zoom branch: the rect is scaled by 1.03 ** (canvas delta * (1, -1))
\* about the scene point under the press position
PanZoomCamera_zoom(w, e) ==
    LET p1c == map_to_canvas(e, e.last_pos)
        p2c == map_to_canvas(e, e.pos)
        s   == <<RPow(ZoomBase, p1c[1] - p2c[1]),
                 RPow(ZoomBase, -(p1c[2] - p2c[2]))>>
        center == STImap(w.cam.transform, V2(e.press_pos[1], e.press_pos[2]))
        tr  == STMul(STMul(STTransform(One2, center), STTransform(s, Zero2)),
                     STTransform(One2, VNeg(center)))
    IN  rect_set(w, STMapRect(tr, w.cam.rect))

\* a branch that acts and leaves event.handled alone
PanZoomCamera_acted_silently(w1) ==
    IF w1.exc # "none" THEN [w |-> w1, handled |-> FALSE]
    ELSE [w |-> PanZoomCamera_update(w1), handled |-> FALSE]

\* the end of either branch: event.handled = True, and update() once more
PanZoomCamera_acted(w1) ==
    IF w1.exc # "none" THEN [w |-> w1, handled |-> FALSE]
    ELSE [w |-> PanZoomCamera_update(w1), handled |-> TRUE]

\* mouse_event without the test of event.handled
PanZoomCamera_mouse_event_unchecked(w, e) ==
    IF ~w.cam.mouse_enabled THEN [w |-> w, handled |-> e.handled]
    ELSE IF 1 \in e.buttons THEN PanZoomCamera_acted(PanZoomCamera_pan(w, e))
    ELSE IF 2 \in e.buttons THEN PanZoomCamera_acted(PanZoomCamera_zoom(w, e))
    ELSE [w |-> w, handled |-> e.handled]

\* PanZoomCamera.mouse_event; the result is [w, handled]
PanZoomCamera_mouse_event(w, e) ==
    IF e.handled \/ ~w.cam.mouse_enabled THEN [w |-> w, handled |-> e.handled]
    ELSE IF 1 \in e.buttons THEN PanZoomCamera_acted(PanZoomCamera_pan(w, e))
    ELSE IF 2 \in e.buttons THEN PanZoomCamera_acted(PanZoomCamera_zoom(w, e))
    ELSE [w |-> w, handled |-> FALSE]

\* the resize_event inherited from Camera, which does nothing
PanZoomCamera_resize_event_inherited(w) == w

\* PanZoomCamera.resize_event
PanZoomCamera_resize_event(w) == PanZoomCamera_update(w)

(***************************************************************************)
(* PerspectiveCamera and TurntableCamera                                   *)
(***************************************************************************)
\* PerspectiveCamera.__init__(mode): the transform setter runs on an unbound
\* camera, so nothing is published
PerspectiveCamera_init(kind, mode) ==
    [NoCamera EXCEPT !.kind = kind,
                     !.projection = PerspectiveTransform(<<>>),
                     !.mode = mode,
                     !.ortho_width = 10,
                     !.fov = 60,
                     !.transform = AffineTransform(<<>>)]

\* TurntableCamera.__init__(elevation, azimuth, distance, center, **kwds)
TurntableCamera_init(elevation, azimuth, mode) ==
    [PerspectiveCamera_init("TurntableCamera", mode) EXCEPT
        !.elevation = elevation,
        !.azimuth = azimuth,
        !.distance = 10,
        !.center = <<0, 0, 0>>]

OrthoNear == <<-1000000, 1>>
OrthoFar == <<1000000, 1>>
PerspNear == <<1, 1000000>>
PerspFar == <<1000000, 1>>

\* set_ortho: height follows from the width and the viewbox's aspect
set_ortho(w) ==
    LET vbs    == w.vp[w.cam.viewbox].size
        width  == R(w.cam.ortho_width)
        height == RMul(width, Q(vbs[2], vbs[1]))
        half   == <<2, 1>>
    IN  [w EXCEPT !.cam.projection =
            PerspectiveTransform(<<Op("set_ortho",
                <<RNeg(RDiv(width, half)), RDiv(width, half),
                  RNeg(RDiv(height, half)), RDiv(height, half),
                  OrthoNear, OrthoFar>>)>>)]

\* set_perspective: fov from _perspective, aspect from the viewbox
set_perspective(w) ==
    LET vbs == w.vp[w.cam.viewbox].size
        ar  == Q(vbs[2], vbs[1])
    IN  [w EXCEPT !.cam.projection =
            PerspectiveTransform(<<Op("set_perspective",
                <<R(w.cam.fov), ar, PerspNear, PerspFar>>)>>)]

\* the pose of a turntable camera, as the operations applied after reset()
TurntablePose(c) ==
    << Op("translate", <<R(0), R(0), R(-c.distance)>>),
       Op("rotate", <<R(c.azimuth), R(0), R(1), R(0)>>),
       Op("rotate", <<R(c.elevation), R(-1), R(0), R(0)>>),
       Op("translate", <<R(-c.center[1]), R(-c.center[2]), R(-c.center[3])>>) >>

\* TurntableCamera._update_entity_transform: reset() and rebuild, in place,
\* the object self.transform; only an AffineTransform has reset/translate/rotate
TurntableCamera_update_entity_transform(w) ==
    IF w.cam.transform.t \in {"AffineTransform", "PerspectiveTransform"}
    THEN MutateTransform(w, AffineTransform(TurntablePose(w.cam)))
    ELSE Raise(w, "AttributeError")

\* self._update_entity_transform(), defined by TurntableCamera alone
update_entity_transform(w) ==
    IF w.cam.kind = "TurntableCamera"
    THEN TurntableCamera_update_entity_transform(w)
    ELSE Raise(w, "AttributeError")

\* STTransform.from_mapping(unit, vrect), unit = [[-1, 1], [1, -1]]
ViewboxTr(size) ==
    STFromMapping(Rect(V2(-1, 1), V2(2, -2)), Rect(V2(0, 0), V2(size[1], size[2])))

\* viewbox_tr * proj_tr * cam_tr; cls is the class the transform library
\* gives the product: a ChainTransform, or one AffineTransform holding the
\* product matrix
Product(cls, a, b, c) == Tr(cls, One2, Zero2, <<>>, <<a, b, c>>)

ProductClasses == {"ChainTransform", "AffineTransform"}

RECURSIVE update_transform(_, _)

\* events.transform_change(): the emitter calls the callbacks that are
\* connected and not blocked
transform_change(w, cls) ==
    IF w.cam.connected /\ ~w.cam.blocked THEN update_transform(w, cls) ELSE w

\* _update_transform without the test of the viewbox: the pose step runs and
\* the projection step fails on the size of no viewbox
update_transform_unguarded(w, cls) ==
    LET p == update_entity_transform([w EXCEPT !.runs = @ + 1])
    IN  IF p.exc # "none" THEN p ELSE Raise(p, "AttributeError")

\* PerspectiveCamera._update_transform.  The with statement blocks the
\* callback, runs the pose step, whose change is notified on transform_change,
\* and unblocks on the way out, also when the step raised.
update_transform(w, cls) ==
    IF w.cam.viewbox = None THEN w
    ELSE
        LET w0 == [w EXCEPT !.runs = @ + 1, !.cam.blocked = TRUE]
            p  == update_entity_transform(w0)
            n  == IF p.exc # "none" THEN p ELSE transform_change(p, cls)
            w1 == [n EXCEPT !.cam.blocked = w.cam.blocked]
            w2 == IF w1.exc # "none" THEN w1
                  ELSE IF w1.cam.mode = "ortho" THEN set_ortho(w1)
                  ELSE IF w1.cam.mode = "perspective" THEN set_perspective(w1)
                  ELSE Raise(w1, "ValueError")
        IN  IF w2.exc # "none" THEN w2
            ELSE transform_set(w2,
                    Product(cls, ViewboxTr(w2.vp[w2.cam.viewbox].size),
                            w2.cam.projection, w2.cam.transform))

\* the viewbox setter of PerspectiveCamera
PerspectiveCamera_viewbox_set(w, vb, cls) ==
    LET w1 == Camera_viewbox_set(w, vb)
    IN  IF w1.exc # "none" THEN w1
        ELSE update_transform([w1 EXCEPT !.cam.parent = vb], cls)

\* np.clip
clip(x, lo, hi) == IF x < lo THEN lo ELSE IF x > hi THEN hi ELSE x

\* orbit without the np.clip
orbit_unclamped(w, azim, elev, cls) ==
    update_transform(
        [w EXCEPT !.cam.azimuth = @ + azim,
                  !.cam.elevation = @ + elev], cls)

\* TurntableCamera.orbit
orbit(w, azim, elev, cls) ==
    update_transform(
        [w EXCEPT !.cam.azimuth = @ + azim,
                  !.cam.elevation = clip(@ + elev, -90, 90)], cls)

\* TurntableCamera.mouse_event; self.fov is an attribute no class defines
TurntableCamera_mouse_event(w, e, cls) ==
    IF e.handled THEN [w |-> w, handled |-> e.handled]
    ELSE IF e.type = "mouse_wheel"
         THEN [w |-> Raise(w, "AttributeError"), handled |-> e.handled]
    ELSE IF e.type = "mouse_move" /\ 1 \in e.buttons THEN
        LET p1c == map_to_canvas(e, e.last_pos)
            p2c == map_to_canvas(e, e.pos)
        IN  [w |-> orbit(w, -(p2c[1] - p1c[1]), p2c[2] - p1c[2], cls),
             handled |-> e.handled]
    ELSE [w |-> w, handled |-> e.handled]

\* mouse_event, as the camera's class resolves it
mouse_event(w, e, cls) ==
    IF w.cam.kind = "PanZoomCamera" THEN PanZoomCamera_mouse_event(w, e)
    ELSE IF w.cam.kind = "TurntableCamera" THEN TurntableCamera_mouse_event(w, e, cls)
    ELSE [w |-> w, handled |-> e.handled]

\* resize_event, as the camera's class resolves it
resize_event(w, cls) ==
    IF w.cam.kind = "PanZoomCamera" THEN PanZoomCamera_resize_event(w)
    ELSE IF w.cam.kind = "Camera" THEN w
    ELSE update_transform(w, cls)

\* cam.viewbox = vb, as the camera's class resolves it
viewbox_set(w, vb, cls) ==
    IF w.cam.kind \in {"Camera", "PanZoomCamera"} THEN Camera_viewbox_set(w, vb)
    ELSE PerspectiveCamera_viewbox_set(w, vb, cls)

(***************************************************************************)
(* make_camera.  A name is <<>> (None) or <<string>>.  args are the extra  *)
(* arguments handed on to the class: Camera and PanZoomCamera take none    *)
(* (a TypeError), TurntableCamera takes elevation, azimuth and mode.       *)
(***************************************************************************)
NoName == <<>>

cam_types ==
    (NoName :> "Camera") @@ (<<"panzoom">> :> "PanZoomCamera")
        @@ (<<"turntable">> :> "TurntableCamera")

NoArgs == [given |-> FALSE, elevation |-> 30, azimuth |-> 30, mode |-> "ortho"]

\* cam_types[cam_type](*args, **kwds): the constructor call
Construct(cls, args) ==
    IF cls = "TurntableCamera"
    THEN [exc |-> "none",
          cam |-> TurntableCamera_init(args.elevation, args.azimuth, args.mode)]
    ELSE IF args.given THEN [exc |-> "TypeError", cam |-> NoCamera]
    ELSE [exc |-> "none",
          cam |-> IF cls = "PanZoomCamera" THEN PanZoomCamera_init ELSE Camera_init]

NoMessage == [name |-> NoName, options |-> {}]

\* make_camera with a bare except: any failure is reported as an unknown name
make_camera_except_all(cam_type, args) ==
    LET r == IF cam_type \in DOMAIN cam_types
             THEN Construct(cam_types[cam_type], args)
             ELSE [exc |-> "KeyError", cam |-> NoCamera]
    IN  IF r.exc # "none"
        THEN [exc |-> "KeyError", cam |-> NoCamera,
              msg |-> [name |-> cam_type, options |-> DOMAIN cam_types]]
        ELSE [exc |-> r.exc, cam |-> r.cam, msg |-> NoMessage]

\* make_camera: the result is [exc, cam, msg]; msg is what the KeyError says
make_camera(cam_type, args) ==
    LET r == IF cam_type \in DOMAIN cam_types
             THEN Construct(cam_types[cam_type], args)
             ELSE [exc |-> "KeyError", cam |-> NoCamera]
    IN  IF r.exc = "KeyError"
        THEN [exc |-> "KeyError", cam |-> NoCamera,
              msg |-> [name |-> cam_type, options |-> DOMAIN cam_types]]
        ELSE [exc |-> r.exc, cam |-> r.cam, msg |-> NoMessage]

(***************************************************************************)
(* The state machine.                                                      *)
(*   cam, vp  the camera object and the viewports                          *)
(*   op, arg  the operation performed last and its integer arguments       *)
(*   exc      the exception it raised, "none" when it returned             *)
(*   ev       the pointer event a viewport has emitted and the camera's    *)
(*            mouse_event is about to receive; type "none" when there is   *)
(*            none.  Dispatch is synchronous: nothing else runs until the  *)
(*            handler has returned.                                        *)
(*   handled  event.handled when the last mouse_event call ended           *)
(*   made     what the last make_camera call was asked and what it said    *)
(*   anchor   history: the zoom gesture in progress, its press pixel, the  *)
(*            scene point that was under it when the gesture began, and    *)
(*            the events of the gesture so far                             *)
(*   nops     operations performed since construction                      *)
(*   runs     the times the body of _update_transform ran in the last      *)
(*            operation                                                    *)
(***************************************************************************)
VARIABLES cam, vp, op, arg, exc, ev, handled, made, anchor, nops, runs

vars == <<cam, vp, op, arg, exc, ev, handled, made, anchor, nops, runs>>

\* inputs
Names == {NoName, <<"panzoom">>, <<"turntable">>, <<"PanZoom">>, <<"arcball">>}

ArgChoices ==
    {NoArgs} \cup
    {[given |-> TRUE, elevation |-> el, azimuth |-> 400, mode |-> m] :
        el \in {-30, 120}, m \in {"perspective", "orthographic"}}

\* the classes of the PerspectiveCamera family that make_camera does not name,
\* built by calling the class
DirectKinds == {"PerspectiveCamera", "ArcballCamera", "FirstPersonCamera"}

\* the mode a class is called with, and the values assigned to cam.mode
DirectModes == {"ortho", "isometric"}
Modes == {"ortho", "perspective", "isometric"}

Sizes == {<<400, 300>>, <<200, 100>>}

RectChoices ==
    { Rect(V2(0, 0), V2(1, 1)), Rect(V2(-1, -2), V2(4, 2)), Rect(V2(0, 1), V2(2, -1)) }

ButtonSets == {{}, {1}, {2}, {1, 2}}

\* (last position, position) of a primary-button or buttonless event
Drags == { <<<<0, 0>>, <<40, 0>>>>, <<<<40, 30>>, <<0, 0>>>> }

\* (last position, position) of a secondary-button drag: one pixel per event,
\* so that 1.03 ** delta stays an exact rational within TLC's integers
ZoomDrags == { <<<<0, 0>>, <<1, -1>>>>, <<<<1, 0>>, <<0, 0>>>> }

PressPoints == { <<0, 0>>, <<100, 150>> }

OrbitDeltas == { <<0, 100>>, <<400, -200>>, <<-30, 10>> }

\* the value assigned to cam.transform: a fresh transform of the class the
\* camera's own constructor assigns
TransformChoices ==
    IF cam.kind = "Camera" THEN {NullTransform}
    ELSE IF cam.kind = "PanZoomCamera" THEN {STTransform(V2(2, 2), V2(1, 1))}
    ELSE {AffineTransform(<<Op("translate", <<R(1), R(0), R(0)>>)>>)}

\* the vertical wheel steps of a mouse_wheel event
WheelDeltas == {1, -1}

NoEvent ==
    [type |-> "none", buttons |-> {}, pos |-> <<0, 0>>, last_pos |-> <<0, 0>>,
     press_pos |-> <<0, 0>>, offset |-> <<0, 0>>, delta |-> <<0, 0>>,
     handled |-> FALSE]

NoAnchor == [active |-> FALSE, press |-> <<0, 0>>, scene |-> Zero2, moves |-> 0]

\* the events a viewport v can emit
Events(v) ==
    UNION { { [type |-> t, buttons |-> b, pos |-> d[2], last_pos |-> d[1],
               press_pos |-> pp, offset |-> vp[v].pos, delta |-> <<0, dy>>,
               handled |-> h] :
                b \in ButtonSets, d \in Drags \cup ZoomDrags, pp \in PressPoints,
                dy \in (IF t = "mouse_wheel" THEN WheelDeltas ELSE {0}),
                h \in BOOLEAN } : t \in Streams }

\* secondary-button drags come one pixel at a time; the press position, which
\* only a secondary-button drag reads, is the origin in every other event; an
\* event that arrives handled comes from the origin
InRange(e) ==
    /\ (2 \in e.buttons /\ 1 \notin e.buttons) <=> (<<e.last_pos, e.pos>> \in ZoomDrags)
    /\ (2 \in e.buttons /\ 1 \notin e.buttons) \/ e.press_pos = <<0, 0>>
    /\ e.handled => e.last_pos = <<0, 0>> /\ e.press_pos = <<0, 0>>

\* the classes the transform library may give the product formed by this
\* camera's _update_transform; a camera that forms no product has no choice
Classes ==
    IF cam.kind \in {"Camera", "PanZoomCamera"} THEN {"ChainTransform"}
    ELSE ProductClasses

Init ==
    /\ cam = NoCamera
    /\ vp = InitVp
    /\ op = "init"
    /\ arg = <<>>
    /\ exc = "none"
    /\ ev = NoEvent
    /\ handled = FALSE
    /\ made = [name |-> NoName, given |-> FALSE, exc |-> "none", msg |-> NoMessage]
    /\ anchor = NoAnchor
    /\ nops = 0
    /\ runs = 0

\* the world before an operation
Now == World(cam, vp, "none")

\* the outcome w of operation o(a) becomes the state
Done(o, a, w) ==
    /\ arg' = a
    /\ cam' = w.cam
    /\ vp' = w.vp
    /\ exc' = w.exc
    /\ op' = o
    /\ nops' = nops + 1
    /\ runs' = w.runs

\* no handler is running
Idle == ev.type = "none"

\* cam = make_camera(name, args)
MakeCamera(name, args) ==
    /\ cam.kind = "none"
    /\ LET r == make_camera(name, args)
       IN  /\ cam' = r.cam
           /\ exc' = r.exc
           /\ made' = [name |-> name, given |-> args.given, exc |-> r.exc,
                        msg |-> r.msg]
    /\ op' = "make_camera"
    /\ arg' = <<>>
    /\ UNCHANGED <<vp, ev, handled, anchor, nops, runs>>

\* cam = PerspectiveCamera(mode=m), ArcballCamera(mode=m), FirstPersonCamera(mode=m)
NewCamera(kind, m) ==
    /\ op = "init"
    /\ cam' = PerspectiveCamera_init(kind, m)
    /\ exc' = "none"
    /\ op' = "new"
    /\ arg' = <<>>
    /\ UNCHANGED <<vp, ev, handled, made, anchor, nops, runs>>

Live == cam.kind # "none" /\ Idle /\ nops < MaxOps

\* the camera is of the PerspectiveCamera family
Perspective == cam.kind \notin {"none", "Camera", "PanZoomCamera"}

\* cam.mode = m
SetMode(m) ==
    /\ m # cam.mode
    /\ Done("mode", <<>>, [Now EXCEPT !.cam.mode = m])
    /\ UNCHANGED <<ev, handled, made, anchor>>

\* cam.viewbox = v
Bind(v, cls) ==
    /\ Done("bind", <<v>>, viewbox_set(Now, v, cls))
    /\ anchor' = NoAnchor
    /\ UNCHANGED <<ev, handled, made>>

\* cam.disconnect()
Disconnect ==
    /\ Live
    /\ Done("disconnect", <<>>, disconnect(Now))
    /\ anchor' = NoAnchor
    /\ UNCHANGED <<ev, handled, made>>

\* cam.rect = r
SetRect(r) ==
    /\ Done("rect", <<>>, rect_set(Now, r))
    /\ anchor' = NoAnchor
    /\ UNCHANGED <<ev, handled, made>>

\* cam.mouse_enabled = b
SetMouseEnabled(b) ==
    /\ Done("mouse_enabled", <<>>, [Now EXCEPT !.cam.mouse_enabled = b])
    /\ UNCHANGED <<ev, handled, made, anchor>>

\* viewport v emits event e on a stream the camera is connected to
Emit(v, e) ==
    /\ e.type \in vp[v].subs
    /\ InRange(e)
    /\ ev' = e
    /\ op' = "emit"
    /\ arg' = <<>>
    /\ exc' = "none"
    /\ handled' = FALSE
    /\ runs' = 0
    /\ UNCHANGED <<cam, vp, made, anchor, nops>>

\* does event e take the zoom branch of PanZoomCamera.mouse_event
Zooms(e) ==
    /\ cam.kind = "PanZoomCamera"
    /\ ~e.handled /\ cam.mouse_enabled
    /\ 1 \notin e.buttons /\ 2 \in e.buttons

\* the camera's mouse_event runs on the emitted event
MouseEvent(cls) ==
    /\ LET r == mouse_event(Now, ev, cls)
       IN  /\ Done("mouse_event", <<>>, r.w)
           /\ handled' = r.handled
    /\ ev' = NoEvent
    /\ anchor' =
          IF ~Zooms(ev) THEN NoAnchor
          ELSE IF anchor.active /\ anchor.press = ev.press_pos
               THEN [anchor EXCEPT !.moves = @ + 1]
          ELSE [active |-> TRUE, press |-> ev.press_pos, moves |-> 1,
                scene |-> STImap(cam.transform, V2(ev.press_pos[1], ev.press_pos[2]))]
    /\ UNCHANGED made

\* viewport v takes the pixel size sz and tells its camera
Resize(v, sz, cls) ==
    /\ LET w == [Now EXCEPT !.vp[v].size = sz]
       IN  Done("resize_event", <<v, sz[1], sz[2]>>, IF cam.viewbox = v THEN resize_event(w, cls) ELSE w)
    /\ anchor' = NoAnchor
    /\ UNCHANGED <<ev, handled, made>>

\* cam.orbit(azim, elev)
Orbit(d, cls) ==
    /\ Done("orbit", d, orbit(Now, d[1], d[2], cls))
    /\ UNCHANGED <<ev, handled, made, anchor>>

\* cam.transform = tr
SetTransform(tr) ==
    /\ Done("transform", <<>>, transform_set(Now, tr))
    /\ anchor' = NoAnchor
    /\ UNCHANGED <<ev, handled, made>>

\* cam.resize_event(event), called with the viewports as they are
ResizeEvent(cls) ==
    /\ Done("resize_event", <<>>, resize_event(Now, cls))
    /\ anchor' = NoAnchor
    /\ UNCHANGED <<ev, handled, made>>

\* cam._update_transform()
UpdateTransform(cls) ==
    /\ Done("update_transform", <<>>, update_transform(Now, cls))
    /\ UNCHANGED <<ev, handled, made, anchor>>

\* cam.events.transform_change.connect(cam._update_transform)
ConnectTransformChange ==
    /\ ~cam.connected
    /\ Done("connect", <<>>, [Now EXCEPT !.cam.connected = TRUE])
    /\ UNCHANGED <<ev, handled, made, anchor>>

Next ==
    \/ \E n \in Names, a \in ArgChoices : MakeCamera(n, a)
    \/ \E k \in DirectKinds, m \in DirectModes : NewCamera(k, m)
    \/ Live /\ Perspective /\ \E m \in Modes : SetMode(m)
    \/ Live /\ \E v \in Viewports, cls \in Classes : Bind(v, cls)
    \/ Disconnect
    \/ Live /\ cam.kind = "PanZoomCamera" /\ \E r \in RectChoices : SetRect(r)
    \/ Live /\ \E b \in BOOLEAN : SetMouseEnabled(b)
    \/ Live /\ \E v \in Viewports : \E e \in Events(v) : Emit(v, e)
    \/ ~Idle /\ \E cls \in Classes : MouseEvent(cls)
    \/ Live /\ \E v \in Viewports, sz \in Sizes, cls \in Classes : Resize(v, sz, cls)
    \/ Live /\ cam.kind = "TurntableCamera"
            /\ \E d \in OrbitDeltas, cls \in Classes : Orbit(d, cls)
    \/ Live /\ \E tr \in TransformChoices : SetTransform(tr)
    \/ Live /\ \E cls \in Classes : ResizeEvent(cls)
    \/ Live /\ Perspective /\ \E cls \in Classes : UpdateTransform(cls)
    \/ Live /\ Perspective /\ ConnectTransformChange

Spec == Init /\ [][Next]_vars

(***************************************************************************)
(* Claims.                                                                 *)
(***************************************************************************)
Clamp90(x) == IF x < -90 THEN -90 ELSE IF x > 90 THEN 90 ELSE x

\* C1: every orbit(dAz, dEl) call leaves elevation = clamp(previous elevation
\* + dEl, -90, 90), inside [-90, 90], and azimuth = previous azimuth + dAz,
\* neither clamped nor normalised, whatever the elevation and azimuth before.
C1_OrbitClampsElevation ==
    [][ op' = "orbit" /\ nops' = nops + 1 =>
          /\ cam'.elevation = Clamp90(cam.elevation + arg'[2])
          /\ cam'.elevation >= -90 /\ cam'.elevation <= 90
          /\ cam'.azimuth = cam.azimuth + arg'[1] ]_vars

\* elevation 30, orbit(0, 100): the elevation is 90, not 130
C1_Witness ==
    /\ cam.kind = "TurntableCamera" /\ op = "orbit" /\ arg = <<0, 100>>
    /\ nops = 1 /\ made.name = <<"turntable">> /\ cam.azimuth = 30
    /\ cam.elevation = 90

\* the operation named o has just been performed
Did(o) == op' = o /\ nops' = nops + 1

\* C2: binding a camera bound to V1 to another viewport V2 does not fail and
\* leaves the camera subscribed to V2's four streams and to none of V1's.
C2_RebindMovesSubscriptions ==
    [][ Did("bind") /\ cam.viewbox # None /\ arg'[1] # cam.viewbox =>
          /\ exc' = "none"
          /\ cam'.viewbox = arg'[1]
          /\ vp'[arg'[1]].subs = Streams
          /\ vp'[cam.viewbox].subs = {} ]_vars

\* the projection PerspectiveCamera builds from the camera's parameters and
\* the viewport's pixel size
ExpectedProjection(c, size) ==
    IF c.mode = "ortho"
    THEN LET h == Q(c.ortho_width * size[2], size[1])
         IN  PerspectiveTransform(<<Op("set_ortho",
                <<Q(-c.ortho_width, 2), Q(c.ortho_width, 2),
                  RNeg(RDiv(h, R(2))), RDiv(h, R(2)),
                  R(-1000000), R(1000000)>>)>>)
    ELSE PerspectiveTransform(<<Op("set_perspective",
                <<R(c.fov), Q(size[2], size[1]), Q(1, 1000000), R(1000000)>>)>>)

\* translate(0, 0, -distance), rotate(azimuth about y), rotate(elevation
\* about -x), translate(-center)
ExpectedPose(c) ==
    AffineTransform(
      << Op("translate", <<R(0), R(0), R(-c.distance)>>),
         Op("rotate", <<R(c.azimuth), R(0), R(1), R(0)>>),
         Op("rotate", <<R(c.elevation), R(-1), R(0), R(0)>>),
         Op("translate", <<R(-c.center[1]), R(-c.center[2]), R(-c.center[3])>>) >>)

\* the pixel corners of viewport b that the corners of the visible rect,
\* (left, bottom) (right, bottom) (left, top) (right, top), are shown at: the
\* pixel Y axis points down
PixelCorners(b) ==
    << <<R(b.pos[1]), R(b.pos[2] + b.size[2])>>,
       <<R(b.pos[1] + b.size[1]), R(b.pos[2] + b.size[2])>>,
       <<R(b.pos[1]), R(b.pos[2])>>,
       <<R(b.pos[1] + b.size[1]), R(b.pos[2])>> >>

\* tr is the similarity transform that shows rect r in viewport b
Shows(tr, r, b) ==
    /\ tr.t = "STTransform"
    /\ \A i \in 1..4 : STMap(tr, Corners(r)[i]) = PixelCorners(b)[i]

\* C3: when the bind of an unbound camera to V completes, V's content root
\* holds the camera's transform, and that transform is the one derived from
\* the state the camera had before the bind: the identity for Camera, the
\* mapping of the visible rect for PanZoomCamera, viewport mapping * projection
\* * pose for TurntableCamera.
C3_BindPublishes ==
    [][ Did("bind") /\ cam.viewbox = None /\ exc' = "none" =>
          LET v == arg'[1]
              t == vp'[v].scene_transform
          IN  /\ cam'.viewbox = v
              /\ t = cam'.transform
              /\ cam.kind = "Camera" => t = NullTransform
              /\ cam.kind = "PanZoomCamera" =>
                    Shows(t, cam.rect, vp[v]) /\ cam'.rect = cam.rect
              /\ cam.kind = "TurntableCamera" =>
                    /\ t.parts = << ViewboxTr(vp[v].size),
                                    ExpectedProjection(cam, vp[v].size),
                                    ExpectedPose(cam) >>
                    /\ t.ops = <<>> ]_vars

\* a turntable camera built with elevation -30, azimuth 400 and perspective
\* mode is bound, and the viewport shows its product transform
C3_Witness ==
    /\ cam.kind = "TurntableCamera" /\ op = "bind" /\ exc = "none" /\ nops = 1
    /\ cam.mode = "perspective" /\ cam.elevation = -30
    /\ cam.viewbox = 2
    /\ Len(vp[2].scene_transform.parts) = 3

\* the camera's mouse_event has just run on the event ev
Handling == ev.type # "none" /\ Did("mouse_event")

\* C4: for a bound PanZoomCamera, after bind, an assignment to rect, a handled
\* pan or zoom event and resize_event, the transform on the viewport's content
\* root is the similarity transform taking the corners of the current visible
\* rect to the corners of the viewport's current pixel rectangle, Y flipped;
\* resize_event leaves the visible rect as it was.
C4_TransformShowsRect ==
    [][ /\ cam'.kind = "PanZoomCamera" /\ cam'.viewbox # None /\ exc' = "none"
        /\ \/ Did("bind") \/ Did("rect") \/ Did("resize_event")
           \/ Handling /\ handled'
        => /\ Shows(vp'[cam'.viewbox].scene_transform, cam'.rect, vp'[cam'.viewbox])
           /\ Did("resize_event") => cam'.rect = cam.rect ]_vars

\* the bound viewport has been resized to 200 x 100 and shows a rect assigned
\* before
C4_Witness ==
    /\ cam.kind = "PanZoomCamera" /\ cam.viewbox = 1 /\ op = "resize_event"
    /\ arg = <<1, 200, 100>>
    /\ cam.rect = Rect(V2(-1, -2), V2(4, 2))
    /\ vp[1].scene_transform.scale = <<R(50), R(-50)>>

\* C5: a pointer event that arrives with event.handled already true is ignored
\* by every camera: the handler returns, nothing of the camera (rect, azimuth,
\* elevation, fov, transform) or of the viewports (content-root transform)
\* changes, and event.handled stays true.
C5_HandledEventIgnored ==
    [][ Handling /\ ev.handled =>
          /\ exc' = "none"
          /\ cam' = cam
          /\ vp' = vp
          /\ handled' ]_vars

\* a turntable camera, which never sets event.handled itself, has returned
\* from an event that was handled on arrival
C5_Witness ==
    /\ cam.kind = "TurntableCamera" /\ op = "mouse_event" /\ handled
    /\ exc = "none"

\* C6: with mouse_enabled set to false, PanZoomCamera and TurntableCamera
\* ignore every pointer event: camera, viewports and event.handled stay as
\* they were.
C6_DisabledMouseIgnored ==
    [][ /\ Handling /\ ~cam.mouse_enabled
        /\ cam.kind \in {"PanZoomCamera", "TurntableCamera"}
        => /\ cam' = cam
           /\ vp' = vp
           /\ handled' = ev.handled ]_vars

\* C7: for a PanZoomCamera and an event that arrives unhandled with the mouse
\* enabled, event.handled is true on return exactly when a button 1 (pan) or
\* button 2 (zoom) branch ran; then the content root holds the transform
\* solved from the new rect; otherwise rect, transform and handled are
\* unchanged.
C7_HandledIffActed ==
    [][ /\ Handling /\ cam.kind = "PanZoomCamera"
        /\ ~ev.handled /\ cam.mouse_enabled
        => /\ exc' = "none"
           /\ handled' <=> (1 \in ev.buttons \/ 2 \in ev.buttons)
           /\ handled' =>
                /\ cam'.viewbox # None
                /\ cam'.transform = vp'[cam'.viewbox].scene_transform
                /\ Shows(cam'.transform, cam'.rect, vp'[cam'.viewbox])
           /\ ~handled' => cam' = cam /\ vp' = vp ]_vars

\* a bound PanZoomCamera has handled an event and its rect is no longer the
\* initial one
C7_Witness ==
    /\ cam.kind = "PanZoomCamera" /\ op = "mouse_event" /\ handled
    /\ nops = 2 /\ cam.mouse_enabled
    /\ cam.rect # Rect(V2(0, 0), V2(1, 1))

\* a pixel position as a point with rational coordinates
Px(p) == <<R(p[1]), R(p[2])>>

\* C8: a primary-button move on a bound PanZoomCamera translates the visible
\* rect by (previous scene position - current scene position), both pointer
\* positions inverse-mapped through the transform in force before the event,
\* and keeps its size; on a 400 x 300 viewport showing ((0,0),(1,1)) a drag by
\* (40, 0) pixels gives origin.x = -1/10 with origin.y, width and height
\* unchanged.
C8_PanTranslatesRect ==
    [][ /\ Handling /\ cam.kind = "PanZoomCamera"
        /\ ~ev.handled /\ cam.mouse_enabled /\ 1 \in ev.buttons
        /\ ev.type = "mouse_move"
        => LET t    == vp[cam.viewbox].scene_transform
               prev == STImap(t, Px(ev.last_pos))
               cur  == STImap(t, Px(ev.pos))
           IN  /\ cam.viewbox # None
               /\ cam'.rect.pos = VAdd(cam.rect.pos, VSub(prev, cur))
               /\ cam'.rect.size = cam.rect.size
               /\ ( /\ vp[cam.viewbox].size = <<400, 300>>
                    /\ cam.rect = Rect(V2(0, 0), V2(1, 1))
                    /\ ev.pos[1] - ev.last_pos[1] = 40
                    /\ ev.pos[2] - ev.last_pos[2] = 0 )
                  => cam'.rect = Rect(<<Q(-1, 10), R(0)>>, V2(1, 1)) ]_vars

\* the 400 x 300 viewport, the unit rect panned to origin.x = -1/10
C8_Witness ==
    /\ cam.kind = "PanZoomCamera" /\ op = "mouse_event" /\ handled /\ nops = 2
    /\ cam.viewbox # None /\ vp[cam.viewbox].size = <<400, 300>>
    /\ cam.rect = Rect(<<Q(-1, 10), R(0)>>, V2(1, 1))

\* C9: during a secondary-button zoom gesture on a bound PanZoomCamera, after
\* every event of the gesture the published transform maps the scene point
\* that was under the press position when the gesture began to that same
\* press pixel.
C9_ZoomAnchoredAtPress ==
    anchor.active =>
        /\ cam.viewbox # None
        /\ STMap(vp[cam.viewbox].scene_transform, anchor.scene) = Px(anchor.press)

\* two events into a zoom gesture pressed at pixel (100, 150), away from the
\* pointer
C9_Witness ==
    /\ anchor.active /\ anchor.moves >= 2 /\ anchor.press = <<100, 150>>
    /\ cam.rect.size # V2(1, 1)

ValidNames == {NoName, <<"panzoom">>, <<"turntable">>}

\* C10: make_camera gives a PanZoomCamera for "panzoom", a TurntableCamera for
\* "turntable" and a Camera for None; for every other name, differently cased
\* spellings included, it fails with an error that names the requested name
\* and lists the valid names; and it reports that error only for an unknown
\* name.
C10_FactoryByName ==
    op = "make_camera" =>
        /\ made.exc = "KeyError" <=> made.name \notin ValidNames
        /\ made.exc = "KeyError" =>
              /\ cam.kind = "none"
              /\ made.msg.name = made.name
              /\ made.msg.options = ValidNames
        /\ made.exc = "none" =>
              /\ made.name = NoName => cam.kind = "Camera"
              /\ made.name = <<"panzoom">> => cam.kind = "PanZoomCamera"
              /\ made.name = <<"turntable">> => cam.kind = "TurntableCamera"
        /\ made.name \in ValidNames /\ ~made.given => made.exc = "none"

\* the differently cased name "PanZoom" is refused as unknown
C10_Witness ==
    /\ op = "make_camera" /\ made.name = <<"PanZoom">>
    /\ made.exc = "KeyError" /\ cam.kind = "none"

\* the modes _update_transform has a projection for
KnownModes == {"ortho", "perspective"}

\* the viewport the camera is bound to shows the product the camera holds
Published == 
    /\ cam.viewbox # None
    /\ vp[cam.viewbox].scene_transform = cam.transform
    /\ Len(cam.transform.parts) = 3

\* C11: on a bound camera of the PerspectiveCamera family, changing mode from
\* perspective to orthographic or back recomputes the transform and publishes
\* it with the projection of the new mode, with no resize event or other
\* operation needed.
C11_ModeSwitchRepublishes ==
    [][ /\ Did("mode") /\ Perspective /\ Published
        /\ {cam.mode, cam'.mode} = KnownModes
        => LET t == vp'[cam.viewbox].scene_transform
           IN  /\ exc' = "none"
               /\ t = cam'.transform
               /\ Len(t.parts) = 3
               /\ t.parts[2] = ExpectedProjection(cam', vp'[cam.viewbox].size) ]_vars

WheelBase == <<11, 10>>

\* C12: a wheel event that arrives unhandled at a bound TurntableCamera
\* multiplies the field of view the perspective projection is built from by
\* 1.1 ** (-deltaY), and the transform is recomputed and published with that
\* field of view.
C12_WheelScalesFov ==
    [][ /\ Handling /\ cam.kind = "TurntableCamera" /\ Published
        /\ ev.type = "mouse_wheel" /\ ~ev.handled
        => LET fov == RMul(R(cam.fov), RPow(WheelBase, -ev.delta[2]))
               t   == vp'[cam.viewbox].scene_transform
           IN  /\ exc' = "none"
               /\ R(cam'.fov) = fov
               /\ cam'.mode = "perspective" =>
                     /\ Len(t.parts) = 3
                     /\ t.parts[2] = PerspectiveTransform(<<Op("set_perspective",
                           <<fov, Q(vp'[cam.viewbox].size[2], vp'[cam.viewbox].size[1]),
                             PerspNear, PerspFar>>)>>) ]_vars

\* C13: no camera's mouse_event raises, whatever the type of the event and
\* the buttons pressed, when the event is delivered to a bound camera: the
\* handler returns normally.
C13_HandlersNeverRaise ==
    [][ Handling /\ cam.viewbox # None => exc' = "none" ]_vars

\* the camera has a viewbox and is subscribed to no viewport: disconnect() has
\* run
Unbound == cam.viewbox # None /\ \A v \in Viewports : vp[v].subs = {}

\* C14: disconnect() leaves the camera's transform and the viewports'
\* content-root transforms as they were, and after it an assignment to rect or
\* transform, orbit and resize_event leave every viewport's content-root
\* transform unchanged.
C14_NoWriteAfterUnbind ==
    [][ /\ Did("disconnect") /\ exc' = "none" =>
              /\ cam'.transform = cam.transform
              /\ \A v \in Viewports : vp'[v].scene_transform = vp[v].scene_transform
        /\ ( /\ Unbound /\ nops' = nops + 1
             /\ op' \in {"rect", "transform", "orbit", "resize_event"} ) =>
              \A v \in Viewports : vp'[v].scene_transform = vp[v].scene_transform ]_vars

\* C15: the elevation of a TurntableCamera lies in [-90, 90] in every state,
\* directly after construction with any elevation argument included.
C15_ElevationInRange ==
    cam.kind = "TurntableCamera" => cam.elevation >= -90 /\ cam.elevation <= 90

\* the camera's resize_event has just run: called by its viewport, or directly
Resized == Did("resize_event") /\ (arg' = <<>> \/ arg'[1] = cam.viewbox)

\* an orbit call, a resize event or a primary-button drag has just been
\* performed
Recomputing ==
    \/ Did("orbit")
    \/ Resized
    \/ Handling /\ ev.type = "mouse_move" /\ 1 \in ev.buttons /\ ~ev.handled

\* C16: for a bound TurntableCamera, after every orbit call, primary-button
\* drag and resize event of a sequence, not only the first, the published
\* transform is viewport mapping * projection * pose, the pose being
\* translate(0, 0, -distance), rotate(azimuth), rotate(elevation),
\* translate(-center) of the current values and nothing else.
C16_CompositeRebuilt ==
    [][ /\ cam.kind = "TurntableCamera" /\ Published /\ cam.mode \in KnownModes
        /\ Recomputing
        => LET b == vp'[cam.viewbox]
               t == b.scene_transform
           IN  /\ exc' = "none"
               /\ t = cam'.transform
               /\ t.ops = <<>>
               /\ t.parts = << ViewboxTr(b.size), ExpectedProjection(cam', b.size),
                               ExpectedPose(cam') >> ]_vars

\* C17: a transform_change notification raised by the pose step does not
\* re-enter _update_transform, the blocker is released on every way out of the
\* step, and every recompute of a bound camera runs the body once and ends
\* with the publication of the transform of the camera's current state.
C17_GuardedRecompute ==
    [][ /\ Perspective /\ nops' = nops + 1 /\ runs' > 0
        /\ cam'.mode \in KnownModes
        => LET b == vp'[cam'.viewbox]
               t == b.scene_transform
           IN  /\ ~cam'.blocked
               /\ runs' = 1
               /\ exc' = "none"
               /\ t = cam'.transform
               /\ Len(t.parts) = 3
               /\ t.parts[1] = ViewboxTr(b.size)
               /\ t.parts[2] = ExpectedProjection(cam', b.size) ]_vars

\* the mode names of the specification and of the code
NamedModes == KnownModes \cup {"orthographic"}

\* C18: a camera of the PerspectiveCamera family is never configured with a
\* projection mode other than orthographic and perspective: the constructor
\* call or the assignment to mode that gives it one raises, bound or not.
C18_UnknownModeRejected ==
    [][ op' \in {"new", "mode"} /\ cam'.mode \notin NamedModes
        => exc' # "none" ]_vars

\* C19: on a camera of the PerspectiveCamera family that was never bound,
\* orbit, resize_event and _update_transform return without raising and
\* change neither the projection nor the transform nor any viewport's content
\* root; orbit changes azimuth and elevation and nothing else.
C19_UnboundRecomputeNoOp ==
    [][ /\ Perspective /\ cam.viewbox = None
        /\ Did("orbit") \/ Did("resize_event") \/ Did("update_transform")
        => /\ exc' = "none"
           /\ runs' = 0
           /\ cam'.projection = cam.projection
           /\ cam'.transform = cam.transform
           /\ \A v \in Viewports : vp'[v].scene_transform = vp[v].scene_transform
           /\ cam' = [cam EXCEPT !.azimuth = cam'.azimuth,
                                 !.elevation = cam'.elevation]
           /\ ~Did("orbit") => cam' = cam ]_vars

\* a turntable camera that was never bound has orbited twice: elevation and
\* azimuth moved, the pose transform is still the empty one of the constructor
C19_Witness ==
    /\ cam.kind = "TurntableCamera" /\ cam.viewbox = None
    /\ op = "orbit" /\ arg = <<400, -200>> /\ nops = 2 /\ exc = "none"
    /\ cam.elevation = -90 /\ cam.azimuth = 430
    /\ cam.transform = AffineTransform(<<>>)

\* C20: ArcballCamera, FirstPersonCamera and PerspectiveCamera are bound and
\* resized without error: bind and resize_event complete and publish viewport
\* mapping * projection * pose.
C20_ExtensionCamerasBind ==
    [][ /\ cam.kind \in DirectKinds /\ cam.mode \in KnownModes
        /\ \/ Did("bind") /\ cam.viewbox = None
           \/ Resized /\ cam.viewbox # None
        => LET b == vp'[cam'.viewbox]
               t == b.scene_transform
           IN  /\ exc' = "none"
               /\ t = cam'.transform
               /\ Len(t.parts) = 3
               /\ t.parts[1] = ViewboxTr(b.size)
               /\ t.parts[2] = ExpectedProjection(cam', b.size) ]_vars

=============================================================================
